---- MODULE Spec2Model ----
(***************************************************************************)
(* gopher3d: lazy GL initialisation, per-frame transform and draw loop of  *)
(* main.go, as a state machine.  The draw callback is split at the source  *)
(* lines where it reads shared state, so that the touch callback can be    *)
(* delivered between any two of its steps.                                 *)
(*                                                                         *)
(* Numbers: coordinates are integers; angles are counted in quarter turns  *)
(* (frac = x / Width is kept as 4*x / Width); scales, colours and the      *)
(* aspect ratio are kept in thousandths.                                   *)
(***************************************************************************)
EXTENDS Integers, Sequences, FiniteSets, TLC

\* ---------------------------------------------------------------- bounds
\* frames on which glutil.CreateProgram may fail
MaxFailures == 2
\* largest number of vertices of one piece in the asset tables explored
MaxVerts == 2
\* largest decompressed byte length explored for the vertex-count arithmetic
MaxBytes == 60

\* ------------------------------------------------------ program constants
NumPieces == 12
coordsPerVertex == 3
BytesPerFloat == 4
Radius == 5

Pieces == 1..NumPieces

gopherSkin == <<761, 442, 180, 1000>>
gopherFur == <<0, 537, 800, 1000>>
white == <<1000, 1000, 1000, 1000>>

\* variant: the body piece declared with the skin colour
PieceColorSkinFirst(p) ==
    CASE p \in {8, 9} -> gopherFur
      [] p \in {1, 2, 3, 4, 5, 6, 10} -> gopherSkin
      [] OTHER -> white

\* the color field of the pieces literal, in declaration order
PieceColor(p) ==
    CASE p \in {1, 8, 9} -> gopherFur
      [] p \in {2, 3, 4, 5, 6, 10} -> gopherSkin
      [] OTHER -> white

\* geom.Width x geom.Height of the surface, in points
Surfaces == {<<4, 2>>, <<2, 4>>}

Streams == {"vertexData", "normalData"}

\* A compressed byte array is kept as what inflating it yields: an error
\* flag and the decompressed byte length.
Stream(ok, len) == [ok |-> ok, len |-> len]

\* Embedded asset tables (gopher.go): positions and normals of a piece
\* inflate to the same positive multiple of 12 bytes.
ValidAssets(k) ==
    [p \in Pieces |->
        LET n == BytesPerFloat * coordsPerVertex * (1 + ((p + k) % MaxVerts))
        IN  [vertexData |-> Stream(TRUE, n), normalData |-> Stream(TRUE, n)]]

\* An asset table with the given stream of one piece corrupted.
Corrupt(a, p, s) ==
    [a EXCEPT ![p] = [a[p] EXCEPT ![s] = Stream(FALSE, 0)]]

AssetTables ==
    LET valid == {ValidAssets(k) : k \in 0..(MaxVerts - 1)}
    IN  valid \cup {Corrupt(ValidAssets(0), p, s) : p \in Pieces, s \in Streams}

VARIABLES
    assets,         \* pieces[i].vertexData / normalData (compressed, constant)
    pieces,         \* pieces[i].verticies / normals / vertexCount
    program,        \* program.Value; 0 is the "not initialised" sentinel
    loc,            \* attribute and uniform locations resolved by initGL
    touchLoc,       \* touchLoc
    geomWidth,      \* geom.Width
    geomHeight,     \* geom.Height
    pc,             \* position of the draw callback
    i,              \* index of the range loop in progress
    vData,          \* len(vData) in initGL
    nData,          \* len(nData) in initGL
    camera,         \* <<frac (quarter turns), y, z>> of draw
    gl,             \* state of the GL context as set by the calls issued
    frame,          \* the GL calls of the draw loop issued in the current frame
    hist            \* history: what has happened so far in this execution

vars == <<assets, pieces, program, loc, touchLoc, geomWidth, geomHeight,
          pc, i, vData, nData, camera, gl, frame, hist>>

AttribNames == {"position", "normal"}
UniformNames == {"lightDirection", "lightAmbientColor", "lightDiffuseColor",
                 "materialAmbientFactor", "materialDiffuseFactor",
                 "model", "view", "projection"}
\* materialShininess is declared but never resolved by initGL
LocNames == AttribNames \cup UniformNames \cup {"materialShininess"}

NoValue == <<>>

ZeroPiece == [verticies |-> 0, normals |-> 0, vertexCount |-> 0]

EmptyFrame ==
    [initGL |-> FALSE,      \* this frame called initGL
     touched |-> FALSE,     \* a touch event arrived while the frame ran
     uniformWrites |-> 0,   \* uniform writes issued after the init check
     loopBinds |-> 0,       \* BindBuffer calls issued by the draw loop
     xRead |-> -1,          \* touchLoc.X as read at line 196 (-1: not yet)
     yRead |-> -1,          \* touchLoc.Y as read at line 217 (-1: not yet)
     yAtX |-> -1,           \* touchLoc.Y when line 196 read touchLoc.X, kept
                            \* until line 217 (-1 otherwise)
     between |-> FALSE,     \* a touch event arrived between lines 196 and 217
     surface |-> <<0, 0>>,  \* geom.Width, geom.Height as read by the frame
     projection |-> NoValue, \* argument of projection.WriteMat4
     view |-> NoValue,      \* argument of view.WriteMat4
     model |-> NoValue,     \* argument of model.WriteMat4
     enables |-> 0,         \* gl.EnableVertexAttribArray calls of the frame
     disables |-> 0,        \* gl.DisableVertexAttribArray calls of the frame
     drawCalls |-> <<>>]    \* DrawArrays calls, in order of issue


\* ------------------------------------------------------- pure functions

\* flateBytes: the inflated bytes, or log.Fatal when the reader fails
flateBytes(v) == [fatal |-> ~v.ok, b |-> v.len]

\* variant: bytes per float taken for coordinates per vertex
VertexCountBad(n) == (n \div coordsPerVertex) \div coordsPerVertex

\* len(vData) / 4 / coordsPerVertex (Go integer division, operands >= 0)
VertexCount(n) == (n \div BytesPerFloat) \div coordsPerVertex

\* f32.Sin / f32.Cos of 2*pi*frac, frac given in quarter turns
Sin4(q) == CASE q % 4 = 1 -> 1 [] q % 4 = 3 -> -1 [] OTHER -> 0
Cos4(q) == CASE q % 4 = 0 -> 1 [] q % 4 = 2 -> -1 [] OTHER -> 0

\* variant: the fraction wraps around at the right edge
FracWrapped(x, w) == (4 * (x % w)) \div w

\* frac := float32(touchLoc.X / geom.Width), in quarter turns
Frac(x, w) == (4 * x) \div w

\* mProj.Perspective(pi/4, Width/Height, .1, 200): a matrix is kept as the
\* arguments it is built from (degrees; thousandths)
Perspective(w, h) ==
    [fovy |-> 45, aspect |-> (1000 * w) \div h, near |-> 100, far |-> 200000]

\* variant: the eye is placed at +z
LookAtPlusZ(y, z) ==
    [eye |-> <<0, y, z>>, center |-> <<0, 0, 0>>, up |-> <<-1, 0, 0>>]

\* mView.LookAt(eye {0, y, -z}, center {0, 0, 0}, up {-1, 0, 0})
LookAt(y, z) ==
    [eye |-> <<0, y, 0 - z>>, center |-> <<0, 0, 0>>, up |-> <<-1, 0, 0>>]

\* variant: the scale eases towards its target from the model matrix of the
\* previous frame
ScaleDrift(y, h) ==
    LET prev == gl.uniform[loc["model"]]
        target == (1000 * y) \div h + 500
    IN  IF prev # NoValue /\ "scale" \in DOMAIN prev
        THEN (target + prev.scale[1]) \div 2
        ELSE target

\* variant: the offset of one half is left out
ScaleNoOffset(y, h) == (1000 * y) \div h

\* scale := float32(touchLoc.Y/geom.Height + 0.5), in thousandths
ScaleOf(y, h) == (1000 * y) \div h + 500

\* mModel.Identity(); mModel.Scale(&mModel, scale, scale, scale)
ModelMatrix(s) == [scale |-> <<s, s, s>>]

\* glutil.CreateProgram: the zero program and an error, or a program name
ProgramHandles == {1}
CreateOutcomes == {0} \cup ProgramHandles

\* gl.GetAttribLocation / gl.GetUniformLocation on the linked program
LocationOf(name) ==
    CASE name = "position" -> 0
      [] name = "normal" -> 1
      [] name = "lightDirection" -> 0
      [] name = "lightAmbientColor" -> 1
      [] name = "lightDiffuseColor" -> 2
      [] name = "materialAmbientFactor" -> 3
      [] name = "materialDiffuseFactor" -> 4
      [] name = "model" -> 5
      [] name = "view" -> 6
      [] name = "projection" -> 7
      [] OTHER -> 0

Buffers == 1..(2 * NumPieces)

\* ------------------------------------------------------------ GL calls

\* <uniform>.WriteMat4 / WriteVec4, gl.Uniform3f / Uniform4f
UniformWrite(g, name, val) == [g EXCEPT !.uniform[loc[name]] = val]

\* gl.BindBuffer(gl.ARRAY_BUFFER, b)
BindBuffer(g, b) == [g EXCEPT !.arrayBuffer = b]

\* gl.BufferData(gl.ARRAY_BUFFER, gl.STATIC_DRAW, data) into the bound buffer
BufferData(g, len) ==
    IF g.arrayBuffer \in Buffers
    THEN [g EXCEPT !.bufData[g.arrayBuffer] = len]
    ELSE g

\* gl.VertexAttribPointer(a, coordsPerVertex, gl.FLOAT, false, 0, 0)
VertexAttribPointer(g, name) == [g EXCEPT !.attribPtr[loc[name]] = g.arrayBuffer]

\* gl.EnableVertexAttribArray / gl.DisableVertexAttribArray
SetAttribArray(g, name, on) == [g EXCEPT !.attribEnabled[loc[name]] = on]

\* variant: the attributes are described without binding the piece's buffers
DescribePieceNoBind(g, p) ==
    VertexAttribPointer(VertexAttribPointer(g, "position"), "normal")

\* draw, lines 231-234: bind piece p's position buffer and describe it to the
\* position attribute, then the same for its normal buffer
DescribePiece(g, p) ==
    VertexAttribPointer(
        BindBuffer(VertexAttribPointer(BindBuffer(g, p.verticies), "position"),
                   p.normals),
        "normal")

\* variant: the loop stops one piece early
MorePiecesShort(k) == k < NumPieces - 1

\* for _, p := range pieces: is there a piece after the k-th
MorePieces(k) == k < NumPieces

\* variant: the normal buffer is never bound, both uploads hit the position
\* buffer
UploadPieceNoRebind(g, p, v, n) ==
    BufferData(BufferData(BindBuffer(g, p.verticies), v), n)

\* initGL, lines 155-158: bind and fill the position buffer, then the normal
\* buffer, of piece p
UploadPiece(g, p, v, n) ==
    BufferData(BindBuffer(BufferData(BindBuffer(g, p.verticies), v), p.normals), n)

\* variant: an event that arrives while a frame runs is dropped
NewTouchLocUnlessDrawing(t) == IF pc = "idle" THEN [X |-> t[1], Y |-> t[2]] ELSE touchLoc

\* touch, line 182: the location stored for an event at point t
NewTouchLoc(t) == [X |-> t[1], Y |-> t[2]]

\* one more event of a piece's history, repeats of the last one dropped
Note(o, e) == IF Len(o) > 0 /\ o[Len(o)] = e THEN o ELSE Append(o, e)

\* ----------------------------------------------------------------- Init

\* a fresh GL context: nothing enabled, bound, stored or written
GLInit ==
    [depthTest |-> FALSE,
     currentProgram |-> 0,
     nextBuffer |-> 0,
     arrayBuffer |-> 0,
     bufData |-> [b \in Buffers |-> -1],
     uniform |-> [u \in 0..7 |-> NoValue],
     attribPtr |-> [a \in 0..1 |-> 0],
     attribEnabled |-> [a \in 0..1 |-> FALSE]]

\* nothing has happened yet
HistInit ==
    [gens |-> [p \in Pieces |-> 0],        \* gl.GenBuffer calls made for the piece
     uploads |-> [p \in Pieces |-> 0],     \* gl.BufferData calls made for the piece
     order |-> [p \in Pieces |-> <<>>],    \* "gen", "upload", "draw" as they occurred
     located |-> 0,                        \* locations resolved
     failures |-> 0,                       \* failed program creations
     lastEvent |-> NoValue,                \* point of the latest touch event
     snapshot |-> NoValue]                 \* a remembered Ready frame

Init ==
    /\ assets \in AssetTables
    /\ pieces = [p \in Pieces |-> ZeroPiece]
    /\ program = 0
    /\ loc = [n \in LocNames |-> 0]
    /\ touchLoc = [X |-> 0, Y |-> 0]
    /\ \E s \in Surfaces : geomWidth = s[1] /\ geomHeight = s[2]
    /\ pc = "idle"
    /\ i = 0
    /\ vData = 0
    /\ nData = 0
    /\ camera = <<0, 0, 0>>
    /\ gl = GLInit
    /\ frame = EmptyFrame
    /\ hist = HistInit

\* ---------------------------------------------------------- environment

\* touch locations delivered on a w x h surface: the corners, the centre and
\* a quarter of the width
TouchPoints(w, h) ==
    {<<0, 0>>, <<w \div 4, h>>, <<w \div 2, h \div 2>>, <<w, h \div 2>>}

\* the app package sets geom.Width and geom.Height between two frames
Resize ==
    /\ pc = "idle"
    /\ \E s \in Surfaces \ {<<geomWidth, geomHeight>>} :
        geomWidth' = s[1] /\ geomHeight' = s[2]
    /\ UNCHANGED <<assets, pieces, program, loc, touchLoc, pc, i, vData,
                   nData, camera, gl, frame, hist>>

\* touch(t): touchLoc = t.Loc
Touch ==
    /\ pc # "fatal"
    /\ \E t \in TouchPoints(geomWidth, geomHeight) :
        /\ touchLoc' = NewTouchLoc(t)
        /\ hist' = [hist EXCEPT !.lastEvent = t]
    /\ frame' = [frame EXCEPT !.touched = (pc # "idle") \/ @,
                              !.between = (pc = "model") \/ @]
    /\ UNCHANGED <<assets, pieces, program, loc, geomWidth, geomHeight,
                   pc, i, vData, nData, camera, gl>>

\* ----------------------------------------------------------------- draw

\* variants of the sentinel test: initialise on every frame; give up after
\* the first failed attempt
NeedsInitAlways == TRUE
NeedsInitOnce == program = 0 /\ hist.failures = 0

\* variant: initialise again when the surface is not the one last drawn on
NeedsInitOnResize == program = 0 \/ frame.surface # <<geomWidth, geomHeight>>

\* draw, line 186: program.Value == 0
NeedsInit == program = 0

\* draw, lines 185-189: if program.Value == 0 { initGL() }
DrawBegin ==
    /\ pc = "idle"
    /\ IF NeedsInit
       THEN /\ pc' = "initGL"
            /\ frame' = [EmptyFrame EXCEPT !.initGL = TRUE]
       ELSE /\ pc' = "clear"
            /\ frame' = EmptyFrame
    /\ hist' = IF hist.snapshot = NoValue
               THEN hist
               ELSE [hist EXCEPT !.snapshot.later = TRUE]
    /\ UNCHANGED <<assets, pieces, program, loc, touchLoc, geomWidth,
                   geomHeight, i, vData, nData, camera, gl>>

\* variant: initGL carries on after a failed creation
AfterCreateNoReturn(h) == "flate"

\* initGL, lines 142-145: if err != nil, log and return to draw (which goes
\* on at line 191); otherwise go on to the pieces
AfterCreate(h) == IF h = 0 THEN "clear" ELSE "flate"

\* initGL, lines 136-145: enable depth test, create the program; on error
\* log and return to draw
InitCreate ==
    /\ pc = "initGL"
    /\ \E h \in CreateOutcomes :
        /\ h = 0 => hist.failures < MaxFailures
        /\ program' = h
        /\ pc' = AfterCreate(h)
        /\ i' = IF AfterCreate(h) = "flate" THEN 1 ELSE i
        /\ hist' = IF h = 0 THEN [hist EXCEPT !.failures = @ + 1] ELSE hist
    /\ gl' = [gl EXCEPT !.depthTest = TRUE]
    /\ UNCHANGED <<assets, pieces, loc, touchLoc, geomWidth, geomHeight,
                   vData, nData, camera, frame>>

\* initGL, lines 148-149: inflate both streams of piece i; log.Fatal ends
\* the process
InitFlate ==
    /\ pc = "flate"
    /\ LET v == flateBytes(assets[i].vertexData)
           n == flateBytes(assets[i].normalData)
       IN  IF v.fatal \/ n.fatal
           THEN /\ pc' = "fatal"
                /\ UNCHANGED <<vData, nData>>
           ELSE /\ pc' = "gen"
                /\ vData' = v.b
                /\ nData' = n.b
    /\ UNCHANGED <<assets, pieces, program, loc, touchLoc, geomWidth,
                   geomHeight, i, camera, gl, frame, hist>>

\* initGL, lines 150-153: two new buffers and the vertex count of piece i
InitGen ==
    /\ pc = "gen"
    /\ pieces' = [pieces EXCEPT ![i] =
                    [verticies |-> gl.nextBuffer + 1,
                     normals |-> gl.nextBuffer + 2,
                     vertexCount |-> VertexCount(vData)]]
    /\ gl' = [gl EXCEPT !.nextBuffer = @ + 2]
    /\ hist' = [hist EXCEPT !.gens[i] = @ + 2,
                            !.order[i] = Note(@, "gen")]
    /\ pc' = "upload"
    /\ UNCHANGED <<assets, program, loc, touchLoc, geomWidth, geomHeight,
                   i, vData, nData, camera, frame>>

\* initGL, lines 155-158: upload positions and normals of piece i, then the
\* next piece
InitUpload ==
    /\ pc = "upload"
    /\ gl' = UploadPiece(gl, pieces[i], vData, nData)
    /\ hist' = [hist EXCEPT !.uploads[i] = @ + 2,
                            !.order[i] = Note(@, "upload")]
    /\ IF MorePieces(i)
       THEN pc' = "flate" /\ i' = i + 1
       ELSE pc' = "locate" /\ i' = 0
    /\ vData' = 0
    /\ nData' = 0
    /\ UNCHANGED <<assets, pieces, program, loc, touchLoc, geomWidth,
                   geomHeight, camera, frame>>

\* initGL, lines 161-173: resolve the locations, initMVP binds the program
InitLocate ==
    /\ pc = "locate"
    /\ loc' = [n \in LocNames |->
                IF n = "materialShininess" THEN loc[n] ELSE LocationOf(n)]
    /\ gl' = [gl EXCEPT !.currentProgram = program]
    /\ hist' = [hist EXCEPT !.located = @ + Cardinality(AttribNames \cup UniformNames)]
    /\ pc' = "clear"
    /\ UNCHANGED <<assets, pieces, program, touchLoc, geomWidth, geomHeight,
                   i, vData, nData, camera, frame>>

\* draw, lines 191-194: clear, gl.UseProgram(program)
DrawClear ==
    /\ pc = "clear"
    /\ gl' = [gl EXCEPT !.currentProgram = program]
    /\ pc' = "camera"
    /\ UNCHANGED <<assets, pieces, program, loc, touchLoc, geomWidth,
                   geomHeight, i, vData, nData, camera, frame, hist>>

\* draw, lines 196-210: camera position from touchLoc.X, projection and view
DrawCamera ==
    /\ pc = "camera"
    /\ LET frac == Frac(touchLoc.X, geomWidth)
           y == Radius * Sin4(frac)
           z == Radius * Cos4(frac)
           g1 == UniformWrite(gl, "projection", Perspective(geomWidth, geomHeight))
           g2 == UniformWrite(g1, "view", LookAt(y, z))
       IN  /\ camera' = <<frac, y, z>>
           /\ gl' = g2
    /\ frame' = [frame EXCEPT !.xRead = touchLoc.X,
                              !.yAtX = touchLoc.Y,
                              !.surface = <<geomWidth, geomHeight>>,
                              !.projection = Perspective(geomWidth, geomHeight),
                              !.view = LookAt(Radius * Sin4(Frac(touchLoc.X, geomWidth)),
                                              Radius * Cos4(Frac(touchLoc.X, geomWidth))),
                              !.uniformWrites = @ + 2]
    /\ pc' = "model"
    /\ UNCHANGED <<assets, pieces, program, loc, touchLoc, geomWidth,
                   geomHeight, i, vData, nData, hist>>

\* variant: the x coordinate is read where y is meant
TouchYSwapped == touchLoc.X

\* draw, line 217: the read of touchLoc.Y
TouchY == touchLoc.Y

\* draw, lines 214-219: model matrix scaled from touchLoc.Y
DrawModel ==
    /\ pc = "model"
    /\ gl' = UniformWrite(gl, "model", ModelMatrix(ScaleOf(TouchY, geomHeight)))
    /\ frame' = [frame EXCEPT !.yRead = TouchY,
                              !.yAtX = -1,
                              !.model = ModelMatrix(ScaleOf(TouchY, geomHeight)),
                              !.uniformWrites = @ + 1]
    /\ pc' = "lights"
    /\ UNCHANGED <<assets, pieces, program, loc, touchLoc, geomWidth,
                   geomHeight, i, vData, nData, camera, hist>>

\* draw, lines 221-226: scene lighting constants, enable both attribute arrays
DrawLights ==
    /\ pc = "lights"
    /\ LET g1 == UniformWrite(gl, "lightDirection", <<500, 500, 0>>)
           g2 == UniformWrite(g1, "materialDiffuseFactor", <<800, 800, 800, 1000>>)
           g3 == UniformWrite(g2, "materialAmbientFactor", <<500, 500, 500, 500>>)
           g4 == SetAttribArray(g3, "normal", TRUE)
           g5 == SetAttribArray(g4, "position", TRUE)
       IN  gl' = g5
    /\ frame' = [frame EXCEPT !.uniformWrites = @ + 3, !.enables = @ + 2]
    /\ i' = 1
    /\ pc' = "piece"
    /\ UNCHANGED <<assets, pieces, program, loc, touchLoc, geomWidth,
                   geomHeight, vData, nData, camera, hist>>

\* draw, lines 227-237: one iteration of the range loop over pieces
DrawPiece ==
    /\ pc = "piece"
    /\ LET p == pieces[i]
           g1 == UniformWrite(gl, "lightDiffuseColor", PieceColor(i))
           g2 == UniformWrite(g1, "lightAmbientColor", PieceColor(i))
           g4 == DescribePiece(g2, p)
           call == [piece |-> i,
                    count |-> p.vertexCount,
                    program |-> g4.currentProgram,
                    position |-> g4.attribPtr[loc["position"]],
                    normal |-> g4.attribPtr[loc["normal"]],
                    enabled |-> {a \in AttribNames : g4.attribEnabled[loc[a]]},
                    ambient |-> g4.uniform[loc["lightAmbientColor"]],
                    diffuse |-> g4.uniform[loc["lightDiffuseColor"]]]
       IN  /\ gl' = g4
           /\ frame' = [frame EXCEPT !.uniformWrites = @ + 2,
                                     !.loopBinds = @ + 2,
                                     !.drawCalls = Append(@, call)]
    /\ hist' = [hist EXCEPT !.order[i] = Note(@, "draw")]
    /\ IF MorePieces(i)
       THEN pc' = "piece" /\ i' = i + 1
       ELSE pc' = "end" /\ i' = 0
    /\ UNCHANGED <<assets, pieces, program, loc, touchLoc, geomWidth,
                   geomHeight, vData, nData, camera>>

\* the inputs a finished frame read and the matrices it wrote
FrameInputs == <<frame.xRead, frame.yRead, frame.surface>>
FrameMatrices == <<frame.projection, frame.view, frame.model>>

\* variant: only the normal array is disabled
DisableArraysNormalOnly(g) == SetAttribArray(g, "normal", FALSE)

\* draw, lines 238-239: disable the normal array, then the position array
DisableArrays(g) ==
    SetAttribArray(SetAttribArray(g, "normal", FALSE), "position", FALSE)

\* draw, lines 238-241: disable both attribute arrays, return
DrawReturn(keep) ==
    /\ pc = "end"
    /\ gl' = DisableArrays(gl)
    /\ frame' = [frame EXCEPT !.disables = @ + 2]
    /\ camera' = <<0, 0, 0>>
    /\ pc' = "idle"
    /\ hist' = IF keep /\ program # 0 /\ hist.snapshot = NoValue
               THEN [hist EXCEPT !.snapshot =
                        [in |-> FrameInputs, out |-> FrameMatrices, later |-> FALSE]]
               ELSE hist
    /\ UNCHANGED <<assets, pieces, program, loc, touchLoc, geomWidth,
                   geomHeight, i, vData, nData>>

DrawEnd == DrawReturn(FALSE)

\* the same step, remembering the frame for a later comparison
DrawEndKeep == DrawReturn(TRUE)

Next ==
    \/ Touch
    \/ Resize
    \/ DrawBegin
    \/ InitCreate
    \/ InitFlate
    \/ InitGen
    \/ InitUpload
    \/ InitLocate
    \/ DrawClear
    \/ DrawCamera
    \/ DrawModel
    \/ DrawLights
    \/ DrawPiece
    \/ DrawEnd

Spec == Init /\ [][Next]_vars

\* Valid assets only, and a finished frame may be remembered.
InitPure == Init /\ assets = ValidAssets(0)
NextPure == Next \/ DrawEndKeep
SpecPure == InitPure /\ [][NextPure]_vars

\* The vertex count of initGL on every decompressed length up to MaxBytes:
\* initGL stands at line 150 for the first piece, vData just inflated.
InitVC ==
    /\ assets = ValidAssets(0)
    /\ pieces = [p \in Pieces |-> ZeroPiece]
    /\ program \in ProgramHandles
    /\ loc = [n \in LocNames |-> 0]
    /\ touchLoc = [X |-> 0, Y |-> 0]
    /\ \E s \in Surfaces : geomWidth = s[1] /\ geomHeight = s[2]
    /\ pc = "gen"
    /\ i = 1
    /\ vData \in 0..MaxBytes
    /\ nData = vData
    /\ camera = <<0, 0, 0>>
    /\ gl = [GLInit EXCEPT !.depthTest = TRUE]
    /\ frame = [EmptyFrame EXCEPT !.initGL = TRUE]
    /\ hist = HistInit
NextVC == InitGen
SpecVC == InitVC /\ [][NextVC]_vars

\* ============================================================== properties

\* the frame that has just run to line 239 / returned
FrameRan == frame.xRead >= 0 /\ frame.yRead >= 0
InitDone == hist.located > 0
AssetsValid == \A p \in Pieces : assets[p].vertexData.ok /\ assets[p].normalData.ok
Drawn(p) == \E k \in 1..Len(hist.order[p]) : hist.order[p][k] = "draw"

\* C1: over any sequence of draw() calls, failed creations included, each
\* piece gets its two buffers generated and uploaded at most once; initGL is
\* entered only while the program handle is zero; a non-zero handle is never
\* changed again.
C1_InitOnce ==
    /\ [](\A p \in Pieces : hist.gens[p] <= 2 /\ hist.uploads[p] <= 2)
    /\ [](gl.nextBuffer <= 2 * NumPieces)
    /\ [](pc = "initGL" => program = 0)
    /\ [][program # 0 => program' = program]_vars

\* C1 witness: creation failed on an earlier frame, initialisation succeeded
\* later, and a further frame has run without initGL.
C1_Witness ==
    /\ pc = "idle" /\ program # 0 /\ hist.failures > 0
    /\ FrameRan /\ ~frame.initGL
    /\ \A p \in Pieces : hist.gens[p] = 2 /\ hist.uploads[p] = 2

\* C2 (as claimed): while the program handle is still zero after the
\* initialisation attempt of a frame, that frame issues no buffer bind in the
\* draw loop, no uniform write and no DrawArrays call.
C2_LoopSkippedWhenNotReady ==
    (frame.initGL /\ program = 0 /\ pc # "initGL") =>
        /\ frame.drawCalls = <<>>
        /\ frame.loopBinds = 0
        /\ frame.uniformWrites = 0

\* C3: every frame completed with a non-zero program handle, the one that
\* initialised included, has issued exactly 12 DrawArrays calls, the k-th for
\* the k-th declared piece with that piece's vertexCount; while the loop
\* runs the calls issued so far are those of the pieces before the current.
C3_TwelveDrawsInOrder ==
    /\ (pc \in {"end", "idle"} /\ FrameRan /\ program # 0) =>
            Len(frame.drawCalls) = 12
    /\ (pc = "piece" /\ program # 0) => Len(frame.drawCalls) = i - 1
    /\ program # 0 =>
            \A k \in 1..Len(frame.drawCalls) :
                /\ frame.drawCalls[k].piece = k
                /\ frame.drawCalls[k].count = pieces[k].vertexCount

\* C3 witness: the frame on which initialisation succeeded has returned
\* after its twelve calls.
C3_Witness ==
    /\ pc = "idle" /\ program # 0 /\ frame.initGL
    /\ Len(frame.drawCalls) = 12
    /\ \E k \in Pieces : frame.drawCalls[k].count > 1

\* C4 (as claimed): once a corrupt stream has ended the process, no
\* DrawArrays call for any piece has been issued in the execution.
C4_FatalMeansNoDrawEver ==
    pc = "fatal" => \A p \in Pieces : ~Drawn(p)

\* C5: a failed creation leaves the process running with a zero handle;
\* every frame that returns with a zero handle has attempted initGL, and the
\* next draw() after it enters initGL again; with valid assets the process is
\* never ended, and a frame that returns with a non-zero handle has uploaded
\* every piece and resolved the locations.
C5_RetryEveryFrame ==
    /\ []((hist.failures > 0 /\ program = 0) => pc # "fatal")
    /\ []((pc = "idle" /\ FrameRan /\ program = 0) => frame.initGL)
    /\ [][(pc = "idle" /\ program = 0 /\ pc' # "idle") => pc' = "initGL"]_vars
    /\ [](AssetsValid => pc # "fatal")
    /\ []((pc = "idle" /\ program # 0) =>
            /\ InitDone
            /\ \A p \in Pieces : hist.uploads[p] = 2)

\* C5 witness: creation failed on MaxFailures frames and the frame after
\* them reached Ready.
C5_Witness ==
    /\ pc = "idle" /\ program # 0 /\ frame.initGL
    /\ hist.failures = MaxFailures
    /\ InitDone

\* C6 (as claimed): in the history of every piece the two buffers are
\* generated first, filled next and used by DrawArrays only after that.
C6_GenUploadBeforeDraw ==
    \A p \in Pieces :
        \E n \in 0..3 : hist.order[p] = SubSeq(<<"gen", "upload", "draw">>, 1, n)

\* C7: for every decompressed length n >= 0 the vertex count initGL stores
\* is n / 12 (integer division), and times 12 gives back n when 12 divides n.
C7_VertexCountIsLenDiv12 ==
    pc = "upload" =>
        /\ pieces[i].vertexCount = vData \div 12
        /\ (vData % 12 = 0 => pieces[i].vertexCount * 12 = vData)

\* C7 witness: the count was computed for a length that 4 divides and 12
\* does not, and for which it is not zero.
C7_Witness ==
    /\ pc = "upload"
    /\ vData > 12 /\ vData % 4 = 0 /\ vData % 12 # 0
    /\ pieces[i].vertexCount > 0

C9_LastWriteWins ==
    /\ [](hist.lastEvent # NoValue =>
            touchLoc = [X |-> hist.lastEvent[1], Y |-> hist.lastEvent[2]])
    /\ []((pc = "end" /\ ~frame.touched) =>
            /\ frame.view = LookAt(Radius * Sin4(Frac(touchLoc.X, geomWidth)),
                                   Radius * Cos4(Frac(touchLoc.X, geomWidth)))
            /\ frame.model = ModelMatrix(ScaleOf(touchLoc.Y, geomHeight)))
    /\ [][pc' # pc => touchLoc' = touchLoc]_vars

\* C9 witness: events were delivered, the latest away from the origin, and a
\* frame ran to its end with none arriving meanwhile.
C9_Witness ==
    /\ pc = "end" /\ ~frame.touched
    /\ hist.lastEvent # NoValue
    /\ touchLoc.X > 0 /\ touchLoc.Y > 0
    /\ frame.xRead = touchLoc.X /\ frame.yRead = touchLoc.Y

\* C10: a Ready frame that read the same touch x, touch y, width and height
\* as a remembered earlier Ready frame has written the same projection, view
\* and model matrices.
C10_TransformPure ==
    (/\ pc = "idle" /\ program # 0 /\ FrameRan
     /\ hist.snapshot # NoValue
     /\ FrameInputs = hist.snapshot.in) =>
        FrameMatrices = hist.snapshot.out

\* C10 witness: a later frame, with touch events in between, repeated the
\* inputs of the remembered frame.
C10_Witness ==
    /\ pc = "idle" /\ program # 0 /\ FrameRan
    /\ hist.snapshot # NoValue /\ hist.snapshot.later
    /\ FrameInputs = hist.snapshot.in
    /\ hist.snapshot.in[1] > 0 /\ hist.snapshot.in[2] > 0
    /\ frame.touched

\* C11: the model matrix written by a frame scales all three axes by the
\* same s, with s = y / Height + 0.5 for the y the frame read: 0.5 at y = 0,
\* 1.0 at y = Height / 2, 1.5 at y = Height, and within [0.5, 1.5] for every
\* y in [0, Height] (s in thousandths).
C11_ScaleFromY ==
    frame.yRead >= 0 =>
        LET s == frame.model.scale[1]
            y == frame.yRead
            h == frame.surface[2]
        IN  /\ frame.model.scale = <<s, s, s>>
            /\ (s - 500) * h = 1000 * y
            /\ (y = 0 => s = 500)
            /\ (2 * y = h => s = 1000)
            /\ (y = h => s = 1500)
            /\ (y <= h => (500 <= s /\ s <= 1500))

\* C11 witness: a frame read y = Height and wrote its model matrix.
C11_Witness ==
    /\ pc = "lights"
    /\ frame.yRead = frame.surface[2]
    /\ frame.model.scale[1] = 1500

\* C12 (as claimed): the first piece in declaration order is drawn with the
\* material colour (0.761, 0.442, 0.180, 1).
C12_FirstPieceSkin ==
    Len(frame.drawCalls) >= 1 =>
        frame.drawCalls[1].diffuse = <<761, 442, 180, 1000>>

\* C12 (amended): a finished frame has drawn 12 pieces, each with the same
\* colour on every frame: the first with (0, 0.537, 0.8, 1), the second with
\* (0.761, 0.442, 0.180, 1), and so on as declared.
C12_TwelveFixedColors ==
    LET fur == <<0, 537, 800, 1000>>
        skin == <<761, 442, 180, 1000>>
        wht == <<1000, 1000, 1000, 1000>>
        declared == <<fur, skin, skin, skin, skin, skin,
                      wht, fur, fur, skin, wht, wht>>
    IN  /\ (pc \in {"end", "idle"} /\ FrameRan) => Len(frame.drawCalls) = 12
        /\ \A k \in 1..Len(frame.drawCalls) :
                frame.drawCalls[k].diffuse = declared[k]

\* C12 witness: a Ready frame has returned after drawing the first piece in
\* the fur colour and the second in the skin colour.
C12_Witness ==
    /\ pc = "idle" /\ program # 0
    /\ Len(frame.drawCalls) = 12
    /\ frame.drawCalls[1].diffuse = <<0, 537, 800, 1000>>
    /\ frame.drawCalls[2].diffuse = <<761, 442, 180, 1000>>

\* C13 (as claimed): the x a frame reads at line 196 and the y it reads at
\* line 217 belong to one touch sample: when y is read, touchLoc still has
\* the x that was read, and the y read is the y touchLoc had at line 196.
C13_SingleSample ==
    [][(pc = "model" /\ pc' = "lights") =>
            /\ touchLoc.X = frame.xRead
            /\ frame'.yRead = frame.yAtX]_vars

\* C13 (amended): the same, for a frame during which no touch event arrives
\* between the read of x and the read of y.
C13_SingleSampleUnlessTouchBetween ==
    [][(pc = "model" /\ pc' = "lights" /\ ~frame.between) =>
            /\ touchLoc.X = frame.xRead
            /\ frame'.yRead = frame.yAtX]_vars

\* C13 witness: an event arrived while the frame ran, but not between the
\* two reads, and the frame has read both coordinates of that sample.
C13_Witness ==
    /\ pc = "lights"
    /\ frame.touched /\ ~frame.between
    /\ frame.xRead > 0 /\ frame.yRead > 0 /\ frame.xRead # frame.yRead
    /\ touchLoc = [X |-> frame.xRead, Y |-> frame.yRead]

CameraLive == pc \in {"model", "lights", "piece", "end"}

\* C15 (as claimed): for a touch x in [0, surface width] the rotation
\* fraction lies in [0, 1), the right edge x = width included (a fraction of
\* 1 is 4 quarter turns).
C15_FracHalfOpen ==
    (CameraLive /\ frame.xRead <= frame.surface[1]) =>
        (0 <= camera[1] /\ camera[1] < 4)

\* C15 (amended): for a touch x in [0, surface width] the rotation fraction
\* lies in the closed range [0, 1]; it is below 1 for x < width and exactly 1
\* at x = width.
C15_FracClosed ==
    (CameraLive /\ frame.xRead <= frame.surface[1]) =>
        /\ 0 <= camera[1] /\ camera[1] <= 4
        /\ camera[1] * frame.surface[1] <= 4 * frame.xRead
        /\ 4 * frame.xRead < (camera[1] + 1) * frame.surface[1]
        /\ (frame.xRead < frame.surface[1] => camera[1] < 4)
        /\ (frame.xRead = frame.surface[1] => camera[1] = 4)

\* C15 witness: a frame has computed its fraction from a touch on the right
\* edge of the surface.
C15_Witness ==
    /\ pc = "model"
    /\ frame.xRead = frame.surface[1]
    /\ camera[1] = 4

\* C16 (as claimed): the eye handed to LookAt is (0, r sin, r cos) with r = 5,
\* looking at the origin with up (-1, 0, 0): (0, 0, +5) at fraction 0 and
\* (0, 0, -5) at fraction 1/2.
C16_EyePlusZ ==
    CameraLive =>
        /\ frame.view.eye = <<0, Radius * Sin4(camera[1]), Radius * Cos4(camera[1])>>
        /\ frame.view.center = <<0, 0, 0>>
        /\ frame.view.up = <<-1, 0, 0>>
        /\ (camera[1] = 0 => frame.view.eye = <<0, 0, 5>>)
        /\ (camera[1] = 2 => frame.view.eye = <<0, 0, -5>>)

\* C16 (amended): the eye handed to LookAt is (0, y, -z) with y = r sin and
\* z = r cos, r = 5, looking at the origin with up (-1, 0, 0): (0, 0, -5) at
\* fraction 0 and (0, 0, +5) at fraction 1/2; once the locations are
\* resolved the view uniform holds that matrix.
C16_EyeMinusZ ==
    CameraLive =>
        /\ camera[2] = Radius * Sin4(camera[1])
        /\ camera[3] = Radius * Cos4(camera[1])
        /\ frame.view.eye = <<0, camera[2], 0 - camera[3]>>
        /\ frame.view.center = <<0, 0, 0>>
        /\ frame.view.up = <<-1, 0, 0>>
        /\ (camera[1] = 0 => frame.view.eye = <<0, 0, -5>>)
        /\ (camera[1] = 1 => frame.view.eye = <<0, 5, 0>>)
        /\ (camera[1] = 2 => frame.view.eye = <<0, 0, 5>>)
        /\ (program # 0 => gl.uniform[loc["view"]] = frame.view)

\* C16 witness: a frame at fraction 1/2 has written its view matrix, eye at
\* (0, 0, +5).
C16_Witness ==
    /\ pc = "model"
    /\ program # 0
    /\ camera[1] = 2
    /\ gl.uniform[loc["view"]].eye = <<0, 0, 5>>

\* C17: a frame enables the position and the normal array once each, before
\* its first piece, and disables them once each, after its last: both are
\* enabled at every DrawArrays call and both are disabled whenever draw has
\* returned.
C17_ArraysEnabledAroundLoop ==
    /\ \A k \in 1..Len(frame.drawCalls) :
          frame.drawCalls[k].enabled = AttribNames
    /\ pc = "idle" => \A a \in AttribNames : ~gl.attribEnabled[loc[a]]
    /\ pc = "idle" => \A a \in 0..1 : ~gl.attribEnabled[a]
    /\ pc \in {"piece", "end"} =>
          /\ frame.enables = 2 /\ frame.disables = 0
          /\ \A a \in AttribNames : gl.attribEnabled[loc[a]]
    /\ pc \in {"initGL", "flate", "gen", "upload", "locate", "clear", "camera",
               "model", "lights"} =>
          /\ frame.enables = 0 /\ frame.disables = 0
          /\ Len(frame.drawCalls) = 0
    /\ (pc = "idle" /\ FrameRan) => (frame.enables = 2 /\ frame.disables = 2)

\* C17 witness: an initialized frame has drawn its twelve pieces with both
\* arrays enabled and has returned, leaving both disabled.
C17_Witness ==
    /\ pc = "idle"
    /\ program # 0
    /\ loc["position"] # loc["normal"]
    /\ Len(frame.drawCalls) = NumPieces
    /\ frame.drawCalls[NumPieces].enabled = {"position", "normal"}
    /\ frame.enables = 2 /\ frame.disables = 2
    /\ ~gl.attribEnabled[loc["position"]] /\ ~gl.attribEnabled[loc["normal"]]

\* no buffer generated or uploaded, no vertexCount set, no location resolved
Uninitialized ==
    /\ \A p \in Pieces :
          /\ pieces[p] = ZeroPiece
          /\ hist.gens[p] = 0 /\ hist.uploads[p] = 0
    /\ gl.nextBuffer = 0
    /\ \A b \in Buffers : gl.bufData[b] = -1
    /\ hist.located = 0
    /\ \A n \in LocNames : loc[n] = 0

\* C18: a failed program creation leaves the rendering state uninitialized:
\* the failing initGL returns to draw having generated and uploaded no
\* buffer, set no vertexCount and resolved no location (all it has done is
\* enable the depth test), and the state stays so while the program handle
\* is zero.
C18_FailedCreateLeavesUninitialized ==
    /\ [](program = 0 => Uninitialized)
    /\ [][(pc = "initGL" /\ pc' # "initGL" /\ program' = 0) =>
            /\ pc' = "clear"
            /\ hist'.failures = hist.failures + 1
            /\ Uninitialized'
            /\ pieces' = pieces /\ loc' = loc
            /\ gl' = [gl EXCEPT !.depthTest = TRUE]]_vars

\* C18 witness: initGL has just returned from a failed creation.
C18_Witness ==
    /\ pc = "clear"
    /\ frame.initGL
    /\ program = 0
    /\ hist.failures > 0
    /\ gl.depthTest
    /\ Uninitialized

\* what the GPU and the program hold of piece p: its compressed data, its
\* buffer handles and vertexCount, its colour, the GenBuffer and BufferData
\* calls made for it
MeshOf(p) ==
    <<assets[p], pieces[p], PieceColor(p), hist.gens[p], hist.uploads[p]>>

\* C19: mesh data is write-once: once a piece's two buffers are uploaded, no
\* later step generates a buffer for it, uploads to its buffers or changes
\* its handles, vertexCount, colour or compressed data; once initGL has
\* finished no step generates or fills any buffer; and a touch event changes
\* nothing but touchLoc.
C19_MeshWriteOnce ==
    /\ [][\A p \in Pieces : hist.uploads[p] = 2 =>
            /\ MeshOf(p)' = MeshOf(p)
            /\ gl'.bufData[pieces[p].verticies] = gl.bufData[pieces[p].verticies]
            /\ gl'.bufData[pieces[p].normals] = gl.bufData[pieces[p].normals]]_vars
    /\ [][InitDone =>
            /\ gl'.nextBuffer = gl.nextBuffer /\ gl'.bufData = gl.bufData
            /\ pieces' = pieces /\ assets' = assets
            /\ program' = program /\ loc' = loc]_vars
    /\ [][touchLoc' # touchLoc =>
            UNCHANGED <<assets, pieces, program, loc, gl, geomWidth,
                        geomHeight, i, vData, nData, camera>>]_vars

\* C19 witness: long after the uploads, a frame that did not initialise has
\* drawn all pieces while touch events arrived, and
\* the buffers are those of the single initialisation.
C19_Witness ==
    /\ pc = "idle"
    /\ program # 0 /\ InitDone
    /\ ~frame.initGL /\ frame.touched
    /\ Len(frame.drawCalls) = NumPieces
    /\ touchLoc.X > 0
    /\ gl.nextBuffer = 2 * NumPieces
    /\ \A p \in Pieces :
          /\ hist.uploads[p] = 2
          /\ gl.bufData[pieces[p].verticies] >= 0

====
